---- MODULE Spec2Model ----
(***************************************************************************)
(* Resume parser: the upload and fetch handlers of src/app/main.py, the    *)
(* processing pipeline and the JSON-file metadata store of                 *)
(* src/app/services/parser.py, and the coercion of the inference response  *)
(* of src/app/services/llm_service.py against the schema of                *)
(* src/app/models.py.                                                      *)
(*                                                                         *)
(* Representation.  A Python str that the code inspects character by       *)
(* character (a filename, an extracted text) is a sequence of one-character*)
(* strings.  The inference response is a sequence of lexemes (Tok): the    *)
(* six JSON punctuation characters, literals, numbers, string literals and *)
(* words of prose; no lexeme other than the punctuation holds a brace, so  *)
(* str.find("{") and str.rfind("}") are the first and last brace lexemes.  *)
(* A JSON value is a record [t, s, l, d] of fixed shape: t the type, s the *)
(* lexeme of a scalar, l the elements of a list, d the entries of a dict   *)
(* in insertion order (a Python dict).                                     *)
(***************************************************************************)
EXTENDS Integers, Sequences, FiniteSets, TLC

----------------------------------------------------------------------------
(* JSON values *)

JNull == [t |-> "null", s |-> "null", l |-> <<>>, d |-> <<>>]
JBool(x) == [t |-> "bool", s |-> x, l |-> <<>>, d |-> <<>>]
JNum(x) == [t |-> "num", s |-> x, l |-> <<>>, d |-> <<>>]
JStr(x) == [t |-> "str", s |-> x, l |-> <<>>, d |-> <<>>]
JList(xs) == [t |-> "list", s |-> "", l |-> xs, d |-> <<>>]
JDict(es) == [t |-> "dict", s |-> "", l |-> <<>>, d |-> es]

Entry(key, val) == [k |-> key, v |-> val]

\* key in dict
HasKey(dv, key) == \E i \in 1..Len(dv.d) : dv.d[i].k = key

\* dict[key], for a key of the dict
GetKey(dv, key) ==
    LET i == CHOOSE j \in 1..Len(dv.d) : dv.d[j].k = key IN dv.d[i].v

\* dict.get(key, default)
DictGet(dv, key, default) == IF HasKey(dv, key) THEN GetKey(dv, key) ELSE default

\* dict[key] = val: a present key keeps its place, a new key goes last
DictSet(dv, key, val) ==
    IF HasKey(dv, key)
    THEN JDict([i \in 1..Len(dv.d) |->
                  IF dv.d[i].k = key THEN Entry(key, val) ELSE dv.d[i]])
    ELSE JDict(Append(dv.d, Entry(key, val)))

----------------------------------------------------------------------------
(* Lexemes of an inference response, and json.loads over them *)

Tok(kind, lexeme) == [k |-> kind, v |-> lexeme]
LBrace == Tok("p", "{")
RBrace == Tok("p", "}")
LBrack == Tok("p", "[")
RBrack == Tok("p", "]")
Comma == Tok("p", ",")
Colon == Tok("p", ":")
TNull == Tok("lit", "null")
TNum(x) == Tok("num", x)
TStr(x) == Tok("str", x)
TWord(x) == Tok("word", x)

\* A container being read: kind "list" or "dict", acc the value so far, key
\* the member name awaiting its value, st what may come next: "first" (a
\* first element or the closing bracket), "key", "colon", "value", "sep"
Frame(kind, acc, key, st) == [kind |-> kind, acc |-> acc, key |-> key, st |-> st]

ParseState(ok, stack, done, val) ==
    [ok |-> ok, stack |-> stack, done |-> done, val |-> val]
ParseFail == ParseState(FALSE, <<>>, FALSE, JNull)

Pop(stack) == SubSeq(stack, 1, Len(stack) - 1)
Top(stack) == stack[Len(stack)]

\* a complete value reaches the container that encloses it, or ends the text
Deliver(stack, val) ==
    IF stack = <<>> THEN ParseState(TRUE, <<>>, TRUE, val)
    ELSE LET f == Top(stack)
             acc2 == IF f.kind = "list" THEN JList(Append(f.acc.l, val))
                     ELSE DictSet(f.acc, f.key, val)
         IN  ParseState(TRUE, Append(Pop(stack), Frame(f.kind, acc2, "", "sep")),
                        FALSE, JNull)

\* a lexeme that starts a value
StartValue(stack, tok) ==
    CASE tok.k = "lit" -> Deliver(stack, IF tok.v = "null" THEN JNull ELSE JBool(tok.v))
      [] tok.k = "num" -> Deliver(stack, JNum(tok.v))
      [] tok.k = "str" -> Deliver(stack, JStr(tok.v))
      [] tok = LBrack ->
            ParseState(TRUE, Append(stack, Frame("list", JList(<<>>), "", "first")),
                       FALSE, JNull)
      [] tok = LBrace ->
            ParseState(TRUE, Append(stack, Frame("dict", JDict(<<>>), "", "first")),
                       FALSE, JNull)
      [] OTHER -> ParseFail

\* the closing bracket of the innermost container
Close(stack) == Deliver(Pop(stack), Top(stack).acc)

SetTop(stack, f) == ParseState(TRUE, Append(Pop(stack), f), FALSE, JNull)

\* one lexeme read: a repeated member name keeps the last value
ParseStep(stack, done, tok) ==
    IF done THEN ParseFail
    ELSE IF stack = <<>> THEN StartValue(stack, tok)
    ELSE LET f == Top(stack) IN
         IF f.kind = "list"
         THEN CASE f.st = "first" ->
                     IF tok = RBrack THEN Close(stack) ELSE StartValue(stack, tok)
                [] f.st = "value" -> StartValue(stack, tok)
                [] OTHER ->
                     IF tok = RBrack THEN Close(stack)
                     ELSE IF tok = Comma
                     THEN SetTop(stack, Frame("list", f.acc, "", "value"))
                     ELSE ParseFail
         ELSE CASE f.st = "first" ->
                     IF tok = RBrace THEN Close(stack)
                     ELSE IF tok.k = "str"
                     THEN SetTop(stack, Frame("dict", f.acc, tok.v, "colon"))
                     ELSE ParseFail
                [] f.st = "key" ->
                     IF tok.k = "str"
                     THEN SetTop(stack, Frame("dict", f.acc, tok.v, "colon"))
                     ELSE ParseFail
                [] f.st = "colon" ->
                     IF tok = Colon
                     THEN SetTop(stack, Frame("dict", f.acc, f.key, "value"))
                     ELSE ParseFail
                [] f.st = "value" -> StartValue(stack, tok)
                [] OTHER ->
                     IF tok = RBrace THEN Close(stack)
                     ELSE IF tok = Comma
                     THEN SetTop(stack, Frame("dict", f.acc, "", "key"))
                     ELSE ParseFail

RECURSIVE ParseRun(_, _)
\* the lexemes of s read in order from parse state st
ParseRun(s, st) ==
    IF ~st.ok \/ s = <<>> THEN st
    ELSE ParseRun(Tail(s), ParseStep(st.stack, st.done, Head(s)))

\* json.loads(s): [ok, val]; ok = FALSE stands for json.JSONDecodeError
LoadsResult(r) ==
    IF r.ok /\ r.done THEN [ok |-> TRUE, val |-> r.val]
    ELSE [ok |-> FALSE, val |-> JNull]

json_loads(s) == LoadsResult(ParseRun(s, ParseState(TRUE, <<>>, FALSE, JNull)))

----------------------------------------------------------------------------
(* The schema of src/app/models.py (pydantic): validation and model_dump *)

\* the value of a field, a missing Optional field taking its default
FieldOr(v, key, default) == DictGet(v, key, default)

\* Optional[str]
OptStr(v) == v.t \in {"null", "str"}

\* strings that EmailStr accepts
ValidEmails == {"a@b.co"}

\* Optional[EmailStr]
OptEmail(v) == v.t = "null" \/ (v.t = "str" /\ v.s \in ValidEmails)

\* Optional[List[str]]
OptStrList(v) ==
    v.t = "null" \/ (v.t = "list" /\ \A i \in 1..Len(v.l) : v.l[i].t = "str")

ValidContactInfo(v) ==
    /\ v.t = "dict"
    /\ OptStr(FieldOr(v, "name", JNull))
    /\ OptEmail(FieldOr(v, "email", JNull))
    /\ OptStr(FieldOr(v, "phone", JNull))
    /\ OptStr(FieldOr(v, "location", JNull))

DumpContactInfo(v) ==
    JDict(<< Entry("name", FieldOr(v, "name", JNull)),
             Entry("email", FieldOr(v, "email", JNull)),
             Entry("phone", FieldOr(v, "phone", JNull)),
             Entry("location", FieldOr(v, "location", JNull)) >>)

ValidJobEntry(v) ==
    /\ v.t = "dict"
    /\ OptStr(FieldOr(v, "company", JNull))
    /\ OptStr(FieldOr(v, "role", JNull))
    /\ OptStr(FieldOr(v, "start_date", JNull))
    /\ OptStr(FieldOr(v, "end_date", JNull))
    /\ OptStr(FieldOr(v, "duration", JNull))
    /\ OptStrList(FieldOr(v, "responsibilities", JList(<<>>)))

DumpJobEntry(v) ==
    JDict(<< Entry("company", FieldOr(v, "company", JNull)),
             Entry("role", FieldOr(v, "role", JNull)),
             Entry("start_date", FieldOr(v, "start_date", JNull)),
             Entry("end_date", FieldOr(v, "end_date", JNull)),
             Entry("duration", FieldOr(v, "duration", JNull)),
             Entry("responsibilities",
                   FieldOr(v, "responsibilities", JList(<<>>))) >>)

\* Optional[List[JobEntry]]
OptJobList(v) ==
    v.t = "null" \/ (v.t = "list" /\ \A i \in 1..Len(v.l) : ValidJobEntry(v.l[i]))

\* the dump of an Optional[List[JobEntry]]
DumpJobList(v) ==
    IF v.t = "null" THEN JNull
    ELSE IF Len(v.l) = 0 THEN JList(<<>>)
    ELSE JList([i \in 1..Len(v.l) |-> DumpJobEntry(v.l[i])])

ValidEducationEntry(v) ==
    /\ v.t = "dict"
    /\ OptStr(FieldOr(v, "degree", JNull))
    /\ OptStr(FieldOr(v, "institution", JNull))
    /\ OptStr(FieldOr(v, "year", JNull))

DumpEducationEntry(v) ==
    JDict(<< Entry("degree", FieldOr(v, "degree", JNull)),
             Entry("institution", FieldOr(v, "institution", JNull)),
             Entry("year", FieldOr(v, "year", JNull)) >>)

\* Optional[List[EducationEntry]]
OptEducationList(v) ==
    v.t = "null"
    \/ (v.t = "list" /\ \A i \in 1..Len(v.l) : ValidEducationEntry(v.l[i]))

\* the dump of an Optional[List[EducationEntry]]
DumpEducationList(v) ==
    IF v.t = "null" THEN JNull
    ELSE IF Len(v.l) = 0 THEN JList(<<>>)
    ELSE JList([i \in 1..Len(v.l) |-> DumpEducationEntry(v.l[i])])

\* ResumeData.model_validate: document_id is required, every other field is
\* Optional with a default (None, or an empty list for the four list fields)
ValidResumeData(v) ==
    /\ v.t = "dict"
    /\ HasKey(v, "document_id") /\ GetKey(v, "document_id").t = "str"
    /\ LET c == FieldOr(v, "contact", JNull) IN c.t = "null" \/ ValidContactInfo(c)
    /\ OptStr(FieldOr(v, "summary", JNull))
    /\ OptJobList(FieldOr(v, "experience", JList(<<>>)))
    /\ OptEducationList(FieldOr(v, "education", JList(<<>>)))
    /\ OptStrList(FieldOr(v, "skills", JList(<<>>)))
    /\ OptStrList(FieldOr(v, "certifications", JList(<<>>)))
    /\ OptStr(FieldOr(v, "raw_text", JNull))

\* ResumeData.model_dump(): every field of the schema, in declaration order
DumpResumeData(v) ==
    LET c == FieldOr(v, "contact", JNull) IN
    JDict(<< Entry("document_id", GetKey(v, "document_id")),
             Entry("contact", IF c.t = "null" THEN JNull ELSE DumpContactInfo(c)),
             Entry("summary", FieldOr(v, "summary", JNull)),
             Entry("experience",
                   DumpJobList(FieldOr(v, "experience", JList(<<>>)))),
             Entry("education",
                   DumpEducationList(FieldOr(v, "education", JList(<<>>)))),
             Entry("skills", FieldOr(v, "skills", JList(<<>>))),
             Entry("certifications", FieldOr(v, "certifications", JList(<<>>))),
             Entry("raw_text", FieldOr(v, "raw_text", JNull)) >>)

----------------------------------------------------------------------------
(* src/app/services/llm_service.py *)

NoExc == [cls |-> "", msg |-> ""]
Exc(cls, msg) == [cls |-> cls, msg |-> msg]

\* a Python str holding the lexemes of the response, as a JSON string value
JText(raw) ==
    [t |-> "str", s |-> "",
     l |-> IF Len(raw) = 0 THEN <<>> ELSE [i \in 1..Len(raw) |-> JStr(raw[i].v)],
     d |-> <<>>]

\* str.find: the 0-based index of the first occurrence, -1 when there is none
Find(raw, tok) ==
    IF \E i \in 1..Len(raw) : raw[i] = tok
    THEN (CHOOSE i \in 1..Len(raw) :
             raw[i] = tok /\ \A j \in 1..(i - 1) : raw[j] # tok) - 1
    ELSE -1

\* str.rfind: the 0-based index of the last occurrence, -1 when there is none
RFind(raw, tok) ==
    IF \E i \in 1..Len(raw) : raw[i] = tok
    THEN (CHOOSE i \in 1..Len(raw) :
             raw[i] = tok /\ \A j \in (i + 1)..Len(raw) : raw[j] # tok) - 1
    ELSE -1

\* raw[a:b] with 0 <= a <= b
Slice(raw, a, b) == SubSeq(raw, a + 1, IF b < Len(raw) THEN b ELSE Len(raw))

\* parser.parse(raw).model_dump() of the PydanticOutputParser for ResumeData:
\* the response read as JSON and validated against the schema; ok = FALSE
\* stands for the exception it raises
Validated(j) ==
    IF j.ok /\ ValidResumeData(j.val)
    THEN [ok |-> TRUE, val |-> DumpResumeData(j.val)]
    ELSE [ok |-> FALSE, val |-> JNull]

StrictParse(raw) == Validated(json_loads(raw))

\* {"_raw": raw}
RawWrapper(raw) == JDict(<< Entry("_raw", JText(raw)) >>)

\* the fallback of extract_structured_json: one try block, so a span that
\* does not parse goes straight to the except branch
\* what the fallback hands to json.loads: raw[start:end+1], or raw itself
FallbackSource(raw, start, end) ==
    IF start # -1 /\ end # -1 /\ end > start
    THEN Slice(raw, start, end + 1)
    ELSE raw

OrRawWrapper(j, raw) == IF j.ok THEN j.val ELSE RawWrapper(raw)

\* a fallback that goes on to the whole response when the span does not parse
FallbackParseThenWhole(raw) ==
    IF Find(raw, LBrace) # -1 /\ RFind(raw, RBrace) > Find(raw, LBrace)
       /\ json_loads(Slice(raw, Find(raw, LBrace), RFind(raw, RBrace) + 1)).ok
    THEN json_loads(Slice(raw, Find(raw, LBrace), RFind(raw, RBrace) + 1)).val
    ELSE OrRawWrapper(json_loads(raw), raw)

FallbackParse(raw) ==
    OrRawWrapper(json_loads(FallbackSource(raw, Find(raw, LBrace), RFind(raw, RBrace))),
                 raw)

OrFallback(strict, raw) == IF strict.ok THEN strict.val ELSE FallbackParse(raw)

\* extract_structured_json from the response on: validated dump, else fallback
CoerceResponse(raw) == OrFallback(StrictParse(raw), raw)

\* str(response) of a response with empty content: the repr of the message
StrOfResponse ==
    << TWord("content=''"), TWord("additional_kwargs="), LBrace, RBrace,
       TWord("response_metadata="), LBrace, TWord("'finish_reason':"),
       TWord("'stop'"), RBrace >>

\* call_groq_langchain: llm is what the provider does with the one call,
\* [fails, content]; the result is [exc, raw]
call_groq_langchain(groqApiKey, llm) ==
    IF ~groqApiKey
    THEN [exc |-> Exc("RuntimeError", "GROQ_API_KEY must be set for Groq provider."),
          raw |-> <<>>, called |-> FALSE]
    ELSE IF llm.fails
    THEN [exc |-> Exc("APIConnectionError", "provider detail"),
          raw |-> <<>>, called |-> TRUE]
    ELSE [exc |-> NoExc,
          raw |-> IF llm.content # <<>> THEN llm.content ELSE StrOfResponse,
          called |-> TRUE]

\* extract_structured_json(text): [exc, val, called]
Coerced(c) ==
    IF c.exc # NoExc THEN [exc |-> c.exc, val |-> JNull, called |-> c.called]
    ELSE [exc |-> NoExc, val |-> CoerceResponse(c.raw), called |-> TRUE]

extract_structured_json(llmProvider, groqApiKey, llm) ==
    IF llmProvider # "groq"
    THEN [exc |-> Exc("ValueError", "Unsupported LLM provider"),
          val |-> JNull, called |-> FALSE]
    ELSE Coerced(call_groq_langchain(groqApiKey, llm))

----------------------------------------------------------------------------
(* Python str operations used by src/app/main.py and parser.py *)

UpperChars == << "P", "D", "F", "O", "C", "X", "T" >>
LowerChars == << "p", "d", "f", "o", "c", "x", "t" >>

\* str.lower() of one character
LowerChar(c) ==
    IF \E i \in 1..Len(UpperChars) : UpperChars[i] = c
    THEN LowerChars[CHOOSE i \in 1..Len(UpperChars) : UpperChars[i] = c]
    ELSE c

\* str.lower()
Lower(str) == IF Len(str) = 0 THEN <<>> ELSE [i \in 1..Len(str) |-> LowerChar(str[i])]

\* str.split(".")[-1]: what follows the last dot, the whole string without a dot
LastDotPart(str) ==
    IF \E i \in 1..Len(str) : str[i] = "."
    THEN LET i == CHOOSE k \in 1..Len(str) :
                     str[k] = "." /\ \A j \in (k + 1)..Len(str) : str[j] # "."
         IN  SubSeq(str, i + 1, Len(str))
    ELSE str

\* ext = filename.lower().split(".")[-1]
ExtOf(filename) == LastDotPart(Lower(filename))

ExtPdf == << "p", "d", "f" >>
ExtDocx == << "d", "o", "c", "x" >>
ExtDoc == << "d", "o", "c" >>

Whitespace == {" ", "\n", "\t"}

\* str.strip()
Strip(str) ==
    IF \A i \in 1..Len(str) : str[i] \in Whitespace THEN <<>>
    ELSE LET a == CHOOSE i \in 1..Len(str) :
                     str[i] \notin Whitespace
                     /\ \A j \in 1..(i - 1) : str[j] \in Whitespace
             b == CHOOSE i \in 1..Len(str) :
                     str[i] \notin Whitespace
                     /\ \A j \in (i + 1)..Len(str) : str[j] \in Whitespace
         IN  SubSeq(str, a, b)

RECURSIVE JoinLines(_)
\* "\n".join(parts)
JoinLines(parts) ==
    IF parts = <<>> THEN <<>>
    ELSE IF Len(parts) = 1 THEN parts[1]
    ELSE parts[1] \o << "\n" >> \o JoinLines(Tail(parts))

\* the non-empty strings of a list, in order
NonEmpty(parts) == SelectSeq(parts, LAMBDA x : x # <<>>)

----------------------------------------------------------------------------
(* src/app/services/parser.py *)

\* the cap of text[:5000]
RawTextCap == 5000

\* a cap that is off by one: text[:5001]
TruncateTextOffByOne(str) ==
    SubSeq(str, 1, IF Len(str) < RawTextCap + 1 THEN Len(str) ELSE RawTextCap + 1)

\* text[:5000]
TruncateText(str) ==
    SubSeq(str, 1, IF Len(str) < RawTextCap THEN Len(str) ELSE RawTextCap)

\* extract_text_from_pdf: [exc, text]; doc is what the libraries find in the
\* file, [ok, pages, paragraphs, cells]
extract_text_from_pdf(doc) ==
    IF ~doc.ok
    THEN [exc |-> Exc("ValueError", "Unable to extract text from PDF"), text |-> <<>>]
    ELSE [exc |-> NoExc, text |-> JoinLines(NonEmpty(doc.pages))]

\* extract_text_from_docx: paragraphs first, then table cells
extract_text_from_docx(doc) ==
    IF ~doc.ok
    THEN [exc |-> Exc("ValueError", "Unable to extract text from DOCX"), text |-> <<>>]
    ELSE [exc |-> NoExc,
          text |-> JoinLines(NonEmpty(doc.paragraphs) \o NonEmpty(doc.cells))]

ListKeys == {"experience", "education", "skills", "certifications"}
ExpectedKeys == << "contact", "summary", "experience", "education", "skills",
                   "certifications" >>

RECURSIVE DefaultKeys(_, _)
\* for key in expected_keys: if key not in parsed: parsed[key] = [] or None
DefaultKeys(parsed, keys) ==
    IF keys = <<>> THEN parsed
    ELSE LET key == Head(keys)
             p2 == IF HasKey(parsed, key) THEN parsed
                   ELSE DictSet(parsed, key,
                                IF key \in ListKeys THEN JList(<<>>) ELSE JNull)
         IN  DefaultKeys(p2, Tail(keys))

NoResult ==
    [document_id |-> "", contact |-> JNull, summary |-> JNull,
     experience |-> JNull, education |-> JNull, skills |-> JNull,
     certifications |-> JNull, raw_text |-> <<>>]

\* the result dict, were its document_id read from the parsed response first
BuildResultKeepingResponseId(document_id, parsed, text) ==
    [document_id |-> IF HasKey(parsed, "document_id")
                        /\ GetKey(parsed, "document_id").t = "str"
                     THEN GetKey(parsed, "document_id").s
                     ELSE document_id,
     contact |-> DictGet(parsed, "contact", JNull),
     summary |-> DictGet(parsed, "summary", JNull),
     experience |-> DictGet(parsed, "experience", JList(<<>>)),
     education |-> DictGet(parsed, "education", JList(<<>>)),
     skills |-> DictGet(parsed, "skills", JList(<<>>)),
     certifications |-> DictGet(parsed, "certifications", JList(<<>>)),
     raw_text |-> TruncateText(text)]

\* the result dict that process_file builds
BuildResult(document_id, parsed, text) ==
    [document_id |-> document_id,
     contact |-> DictGet(parsed, "contact", JNull),
     summary |-> DictGet(parsed, "summary", JNull),
     experience |-> DictGet(parsed, "experience", JList(<<>>)),
     education |-> DictGet(parsed, "education", JList(<<>>)),
     skills |-> DictGet(parsed, "skills", JList(<<>>)),
     certifications |-> DictGet(parsed, "certifications", JList(<<>>)),
     raw_text |-> TruncateText(text)]

Outcome(exc, txt, val, res, ops) ==
    [exc |-> exc, text |-> txt, parsed |-> val, result |-> res, calls |-> ops]

\* process_file from the return of extract_structured_json to its call of
\* save_metadata: a parsed value that is no dict fails in the defaulting
\* loop or at parsed.get
AfterInference(e, txt, document_id) ==
    LET ops == {"extract_text"} \cup (IF e.called THEN {"inference"} ELSE {}) IN
    IF e.exc # NoExc THEN Outcome(e.exc, txt, JNull, NoResult, ops)
    ELSE IF e.val.t # "dict"
    THEN Outcome(Exc("TypeError", "parsed is not a dict"), txt, e.val, NoResult, ops)
    ELSE Outcome(NoExc, txt, e.val,
                 BuildResult(document_id, DefaultKeys(e.val, ExpectedKeys), txt), ops)

\* process_file from the extracted text on, were the empty-text check made
\* once extract_structured_json has returned
AfterExtractionInferringFirst(x, llmProvider, groqApiKey, llm, document_id) ==
    IF x.exc # NoExc THEN Outcome(x.exc, <<>>, JNull, NoResult, {"extract_text"})
    ELSE IF Strip(x.text) = <<>>
    THEN Outcome(Exc("ValueError", "The uploaded file contains no text."),
                 x.text, JNull, NoResult, {"extract_text", "inference"})
    ELSE AfterInference(extract_structured_json(llmProvider, groqApiKey, llm),
                        x.text, document_id)

\* process_file from the extracted text on
AfterExtraction(x, llmProvider, groqApiKey, llm, document_id) ==
    IF x.exc # NoExc THEN Outcome(x.exc, <<>>, JNull, NoResult, {"extract_text"})
    ELSE IF Strip(x.text) = <<>>
    THEN Outcome(Exc("ValueError", "The uploaded file contains no text."),
                 x.text, JNull, NoResult, {"extract_text"})
    ELSE AfterInference(extract_structured_json(llmProvider, groqApiKey, llm),
                        x.text, document_id)

\* process_file up to its call of save_metadata: [exc, text, parsed, result,
\* calls]; document_id is the value its uuid4() call yields
process_file(filename, doc, llmProvider, groqApiKey, llm, document_id) ==
    LET ext == ExtOf(filename) IN
    IF ext = ExtPdf
    THEN AfterExtraction(extract_text_from_pdf(doc), llmProvider, groqApiKey, llm,
                         document_id)
    ELSE IF ext \in {ExtDocx, ExtDoc}
    THEN AfterExtraction(extract_text_from_docx(doc), llmProvider, groqApiKey, llm,
                         document_id)
    ELSE Outcome(Exc("ValueError",
                     "Unsupported file type. Only PDF and DOCX are allowed."),
                 <<>>, JNull, NoResult, {})

\* the metadata file holding "{}"
EmptyMeta == [k \in {} |-> NoResult]

\* meta[document_id] = data
MetaSet(m, document_id, data) ==
    [k \in DOMAIN m \cup {document_id} |-> IF k = document_id THEN data ELSE m[k]]

\* json.load of the metadata file in save_metadata: a file that does not
\* decode counts as empty
ReadForSave(f) == IF f.ok THEN f.meta ELSE EmptyMeta

\* load_metadata(document_id): [found, data]; found = FALSE stands for None
load_metadata(f, document_id) ==
    IF f.ok /\ document_id \in DOMAIN f.meta
    THEN [found |-> TRUE, data |-> f.meta[document_id]]
    ELSE [found |-> FALSE, data |-> NoResult]

----------------------------------------------------------------------------
(* src/app/main.py: the responses of the two handlers *)

GenericFailure == "Failed to process resume."

Response(status, document_id, detail) ==
    [status |-> status, document_id |-> document_id, detail |-> detail]
NoResponse == Response(0, "", "")

\* the except clauses of upload_resume around process_file
ProcessingError(exc) ==
    IF exc.cls = "ValueError" THEN Response(400, "", exc.msg)
    ELSE Response(500, "", GenericFailure)

\* get_resume(document_id): [id, status, body]
get_resume(f, document_id) ==
    LET data == load_metadata(f, document_id) IN
    IF ~data.found THEN [id |-> document_id, status |-> 404, body |-> NoResult]
    ELSE [id |-> document_id, status |-> 200, body |-> data.data]

----------------------------------------------------------------------------
(* Bounds and inputs *)

\* upload requests in flight
NumUploads == 2
\* longest response enumerated lexeme by lexeme
MaxRawLen == 3
\* how far past the cap the longest extracted text goes
MaxOverCap == 2

Uploads == 1..NumUploads

\* the values successive uuid4() calls yield, taken to differ from all before
\* them (122 random bits)
UuidPool == << "u1", "u2", "u3", "u4", "u5", "u6", "u7", "u8" >>
Uuid(n) == UuidPool[n]
\* an identifier no upload was given
UnknownId == "u0"

FilePdf == << "c", "v", ".", "p", "d", "f" >>
FilePdfUpper == << "c", "v", ".", "P", "D", "F" >>
FileDocx == << "c", "v", ".", "d", "o", "c", "x" >>
FileDoc == << "c", ".", "v", ".", "D", "o", "c" >>
FileBarePdf == << "p", "d", "f" >>
FileTxt == << "c", "v", ".", "t", "x", "t" >>
FileNoExt == << "c", "v" >>
FilePdfTxt == << "c", "v", ".", "p", "d", "f", ".", "t", "x", "t" >>
FileTrailingDot == << "p", "d", "f", "." >>

Doc(pages, paragraphs, cells) ==
    [ok |-> TRUE, pages |-> pages, paragraphs |-> paragraphs, cells |-> cells]
BrokenDoc == [ok |-> FALSE, pages |-> <<>>, paragraphs |-> <<>>, cells |-> <<>>]
DocGood == Doc(<< << "a", " ", "b" >>, <<>>, << "c" >> >>,
               << << "a" >>, <<>> >>, << << "b" >> >>)
DocBlank == Doc(<< << " " >>, << "\t" >> >>, << << " " >> >>, << << "\n" >> >>)
DocEmpty == Doc(<<>>, <<>>, <<>>)

\* a text of n characters, a blank every seventh
LongText(n) ==
    [i \in 1..n |-> IF i % 7 = 0 THEN " " ELSE IF i % 2 = 0 THEN "a" ELSE "b"]
LongDoc(n) == Doc(<< LongText(n) >>, << LongText(n) >>, <<>>)

Llm(content) == [fails |-> FALSE, content |-> content]
LlmDown == [fails |-> TRUE, content |-> <<>>]

RespValid ==
    << LBrace, TStr("document_id"), Colon, TStr("d1"), Comma,
       TStr("skills"), Colon, LBrack, TStr("py"), RBrack, RBrace >>
RespValidNullSkills ==
    << LBrace, TStr("document_id"), Colon, TStr("u2"), Comma,
       TStr("skills"), Colon, TNull, RBrace >>
RespFull ==
    << LBrace, TStr("document_id"), Colon, TStr("d1"), Comma,
       TStr("contact"), Colon, LBrace, TStr("email"), Colon, TStr("a@b.co"), RBrace,
       Comma, TStr("experience"), Colon, LBrack, LBrace, TStr("role"), Colon,
       TStr("dev"), RBrace, RBrack, Comma,
       TStr("education"), Colon, LBrack, LBrace, RBrace, RBrack, RBrace >>
RespBadEmail ==
    << LBrace, TStr("document_id"), Colon, TStr("d1"), Comma,
       TStr("contact"), Colon, LBrace, TStr("email"), Colon, TStr("nobody"), RBrace,
       RBrace >>
RespNoId == << LBrace, TStr("summary"), Colon, TStr("s"), RBrace >>
RespProseDict ==
    << TWord("Sure:"), LBrace, TStr("skills"), Colon, TStr("py"), RBrace, TWord("Done") >>
RespProseId ==
    << TWord("Sure:"), LBrace, TStr("document_id"), Colon, TStr("d2"), RBrace,
       TWord("Done") >>
RespNullList == << LBrace, TStr("experience"), Colon, TNull, RBrace >>
RespEmptyDict == << LBrace, RBrace >>
RespRawKey == << LBrace, TStr("_raw"), Colon, TStr("x"), RBrace >>
RespTwoObjects == << LBrack, LBrace, RBrace, Comma, LBrace, RBrace, RBrack >>
RespArray == << LBrack, TNum("1"), RBrack >>
RespNumber == << TNum("1") >>
RespString == << TStr("contact") >>
RespProse == << TWord("Sorry") >>
RespCut == << LBrace, TStr("skills"), Colon, LBrack >>
RespEmpty == <<>>

SampleResponses ==
    { RespValid, RespValidNullSkills, RespFull, RespBadEmail, RespNoId,
      RespProseDict, RespProseId, RespNullList, RespEmptyDict, RespRawKey, RespTwoObjects,
      RespArray, RespNumber, RespString, RespProse, RespCut, RespEmpty }

RawAlphabet == { LBrace, RBrace, LBrack, RBrack, TNull, TWord("Sure") }

\* every response of at most MaxRawLen lexemes of the alphabet
ShortResponses ==
    UNION { [1..n -> RawAlphabet] : n \in 1..MaxRawLen }

Request(filename, saveFails, doc, llm) ==
    [filename |-> filename, saveFails |-> saveFails, doc |-> doc, llm |-> llm]

\* the requests of the concurrent runs
Scenarios ==
    { Request(FilePdf, FALSE, DocGood, Llm(RespValid)),
      Request(FileDocx, FALSE, DocGood, Llm(RespNullList)),
      Request(FileBarePdf, FALSE, DocGood, Llm(RespValid)),
      Request(FileTxt, FALSE, DocGood, Llm(RespValid)),
      Request(FilePdf, TRUE, DocGood, Llm(RespValid)),
      Request(FilePdf, FALSE, BrokenDoc, Llm(RespValid)),
      Request(FileDoc, FALSE, DocBlank, Llm(RespValid)),
      Request(FilePdfUpper, FALSE, DocGood, LlmDown),
      Request(FilePdf, FALSE, DocGood, Llm(RespArray)),
      Request(FileDocx, FALSE, DocGood, Llm(RespProse)) }

\* the concurrent requests whose responses carry a document_id of their own:
\* on the strict path, on the fallback path, and one equal to a value that
\* uuid4() returns; beside them two requests that use up no document_id
IdScenarios ==
    { Request(FilePdf, FALSE, DocGood, Llm(RespValid)),
      Request(FileDocx, FALSE, DocGood, Llm(RespProseId)),
      Request(FilePdf, FALSE, DocGood, Llm(RespValidNullSkills)),
      Request(FilePdf, TRUE, DocGood, Llm(RespValid)),
      Request(FileDoc, FALSE, DocBlank, Llm(RespValid)) }

\* the requests that differ in the filename alone
FilenameScenarios ==
    { Request(f, FALSE, d, Llm(RespValid)) :
        f \in { FilePdf, FilePdfUpper, FileDocx, FileDoc, FileBarePdf, FileTxt,
                FileNoExt, FilePdfTxt, FileTrailingDot },
        d \in { DocGood, DocBlank, BrokenDoc } }

\* the requests that differ in the inference response alone
ResponseScenarios ==
    { Request(FilePdf, FALSE, DocGood, Llm(raw)) :
        raw \in SampleResponses \cup ShortResponses }

\* the requests that differ in the extracted text alone
TextLengths ==
    {0, 1, 2, RawTextCap - 1, RawTextCap} \cup
    { RawTextCap + k : k \in 1..MaxOverCap }
TextScenarios ==
    { Request(f, FALSE, LongDoc(n), Llm(RespValid)) :
        f \in {FilePdf, FileDocx}, n \in TextLengths }
    \cup { Request(FilePdf, FALSE, DocEmpty, Llm(RespValid)),
           Request(FileDocx, FALSE, DocBlank, Llm(RespValid)) }

----------------------------------------------------------------------------
(* State *)

VARIABLES
    provider,    \* LLM_PROVIDER, read once at import
    apiKey,      \* whether GROQ_API_KEY is set
    input,       \* input[r]: the request of upload r and what its collaborators do
    pc,          \* pc[r]: where upload r stands
    text,        \* text[r]: the text process_file extracted
    parsed,      \* parsed[r]: what extract_structured_json returned
    result,      \* result[r]: the result dict of process_file
    meta,        \* meta[r]: the dict save_metadata holds between read and write
    resp,        \* resp[r]: the response of upload r
    calls,       \* calls[r]: the operations upload r performed
    uuidCount,   \* uuid4() calls made so far
    uploadDir,   \* the tokens of the files written under UPLOAD_DIR
    file,        \* METADATA_FILE: [ok, meta]; ok = FALSE when it does not decode
    lastGet      \* the latest response of GET /api/resume/{id}

vars == << provider, apiKey, input, pc, text, parsed, result, meta, resp, calls,
           uuidCount, uploadDir, file, lastGet >>

NoGet == [id |-> "", status |-> 0, body |-> NoResult]

\* the state after import: the metadata file exists and holds "{}"
InitWith(reqs, active, providers, keys) ==
    /\ provider \in providers
    /\ apiKey \in keys
    /\ \E sent \in [active -> reqs] :
          input = [r \in Uploads |->
                     IF r \in active THEN sent[r] ELSE CHOOSE q \in reqs : TRUE]
    /\ pc = [r \in Uploads |-> IF r \in active THEN "new" ELSE "idle"]
    /\ text = [r \in Uploads |-> <<>>]
    /\ parsed = [r \in Uploads |-> JNull]
    /\ result = [r \in Uploads |-> NoResult]
    /\ meta = [r \in Uploads |-> EmptyMeta]
    /\ resp = [r \in Uploads |-> NoResponse]
    /\ calls = [r \in Uploads |-> {}]
    /\ uuidCount = 0
    /\ uploadDir = {}
    /\ file = [ok |-> TRUE, meta |-> EmptyMeta]
    /\ lastGet = NoGet

Init == InitWith(Scenarios, Uploads, {"groq", "openai"}, BOOLEAN)
InitFilename == InitWith(FilenameScenarios, {1}, {"groq"}, {TRUE})
InitResponse == InitWith(ResponseScenarios, {1}, {"groq"}, {TRUE})
InitText == InitWith(TextScenarios, {1}, {"groq"}, {TRUE})
InitIds == InitWith(IdScenarios, Uploads, {"groq"}, {TRUE})

----------------------------------------------------------------------------
(* Actions *)

\* upload_resume once process_file has returned or raised p
Processed(r, p) ==
    /\ text' = [text EXCEPT ![r] = p.text]
    /\ parsed' = [parsed EXCEPT ![r] = p.parsed]
    /\ result' = [result EXCEPT ![r] = p.result]
    /\ calls' = [calls EXCEPT ![r] = {"save_uploaded_file"} \cup p.calls]
    /\ uploadDir' = uploadDir \cup {Uuid(uuidCount + 1)}
    /\ IF p.exc # NoExc
       THEN /\ resp' = [resp EXCEPT ![r] = ProcessingError(p.exc)]
            /\ uuidCount' = uuidCount + 1
            /\ pc' = [pc EXCEPT ![r] = "done"]
       ELSE /\ uuidCount' = uuidCount + 2
            /\ pc' = [pc EXCEPT ![r] = "read"]
            /\ UNCHANGED resp

\* upload_resume answering before process_file is called
Rejected(r, response, ops, uuids) ==
    /\ resp' = [resp EXCEPT ![r] = response]
    /\ calls' = [calls EXCEPT ![r] = ops]
    /\ uuidCount' = uuidCount + uuids
    /\ pc' = [pc EXCEPT ![r] = "done"]
    /\ UNCHANGED << text, parsed, result, uploadDir >>

\* POST /api/upload, from the request up to save_metadata's read of the file:
\* the extension check, save_uploaded_file, and process_file's local work
Upload(r) ==
    /\ pc[r] = "new"
    /\ IF ExtOf(input[r].filename) \notin {ExtPdf, ExtDocx, ExtDoc}
       THEN Rejected(r, Response(400, "", "Only PDF or DOCX files are supported."),
                     {}, 0)
       ELSE IF input[r].saveFails
       THEN Rejected(r, Response(500, "", "Failed to save file"),
                     {"save_uploaded_file"}, 1)
       ELSE Processed(r, process_file(input[r].filename, input[r].doc, provider,
                                      apiKey, input[r].llm, Uuid(uuidCount + 2)))
    /\ UNCHANGED << provider, apiKey, input, meta, file, lastGet >>

\* save_metadata: json.load of the file, then meta[document_id] = data
SaveMetadataRead(r) ==
    /\ pc[r] = "read"
    /\ meta' = [meta EXCEPT ![r] =
                   MetaSet(ReadForSave(file), result[r].document_id, result[r])]
    /\ calls' = [calls EXCEPT ![r] = @ \cup {"save_metadata"}]
    /\ pc' = [pc EXCEPT ![r] = "open"]
    /\ UNCHANGED << provider, apiKey, input, text, parsed, result, resp, uuidCount,
                    uploadDir, file, lastGet >>

\* save_metadata: METADATA_FILE.open("w") empties the file
SaveMetadataOpen(r) ==
    /\ pc[r] = "open"
    /\ file' = [ok |-> FALSE, meta |-> EmptyMeta]
    /\ pc' = [pc EXCEPT ![r] = "write"]
    /\ UNCHANGED << provider, apiKey, input, text, parsed, result, meta, resp, calls,
                    uuidCount, uploadDir, lastGet >>

\* save_metadata: json.dump and close; process_file returns and upload_resume
\* answers 200 with the document_id
SaveMetadataWrite(r) ==
    /\ pc[r] = "write"
    /\ file' = [ok |-> TRUE, meta |-> meta[r]]
    /\ resp' = [resp EXCEPT ![r] = Response(200, result[r].document_id, "")]
    /\ pc' = [pc EXCEPT ![r] = "done"]
    /\ UNCHANGED << provider, apiKey, input, text, parsed, result, meta, calls,
                    uuidCount, uploadDir, lastGet >>

\* identifiers a client asks for: those of the records built so far, and one
\* that no upload was given
KnownIds == { result[r].document_id : r \in { q \in Uploads : result[q] # NoResult } }

\* GET /api/resume/{document_id}
GetResume(id) ==
    /\ lastGet' = get_resume(file, id)
    /\ UNCHANGED << provider, apiKey, input, pc, text, parsed, result, meta, resp,
                    calls, uuidCount, uploadDir, file >>

\* Requests are served independently of one another.  get_resume is a plain
\* function, which the server runs on a worker thread beside whatever else is
\* running; the worker processes of a deployment share METADATA_FILE, so the
\* file accesses of two uploads interleave in any order.
Next ==
    \/ \E r \in Uploads : Upload(r)
    \/ \E r \in Uploads : SaveMetadataRead(r)
    \/ \E r \in Uploads : SaveMetadataOpen(r)
    \/ \E r \in Uploads : SaveMetadataWrite(r)
    \/ \E id \in KnownIds \cup {UnknownId} : GetResume(id)

Spec == Init /\ [][Next]_vars
SpecFilename == InitFilename /\ [][Next]_vars
SpecResponse == InitResponse /\ [][Next]_vars
SpecText == InitText /\ [][Next]_vars
SpecIds == InitIds /\ [][Next]_vars

----------------------------------------------------------------------------
(* Vocabulary of the properties *)

\* the filename ends in a dot followed by pdf, docx or doc, in any case
HasAcceptedExtension(filename) ==
    \E i \in 1..Len(filename) :
        /\ filename[i] = "."
        /\ Lower(SubSeq(filename, i + 1, Len(filename))) \in {ExtPdf, ExtDocx, ExtDoc}

Finished(r) == pc[r] = "done"
Succeeded(r) == Finished(r) /\ resp[r].status = 200
Saving(r) == pc[r] \in {"read", "open", "write"}

\* the inference call of upload r returned a response
InferenceReturned(r) ==
    "inference" \in calls[r] /\ ~input[r].llm.fails /\ pc[r] \notin {"new", "idle"}

\* the response of the inference call of upload r
RawOf(r) ==
    IF input[r].llm.content # <<>> THEN input[r].llm.content ELSE StrOfResponse

\* the storage, the extraction, the configuration and the provider all work
\* for upload r, and its document holds text
Healthy(r) ==
    /\ ~input[r].saveFails
    /\ input[r].doc.ok
    /\ provider = "groq" /\ apiKey
    /\ ~input[r].llm.fails
    /\ Strip(text[r]) # <<>>

ListFields(rec) == << rec.experience, rec.education, rec.skills, rec.certifications >>

\* the records of the metadata file
Stored == IF file.ok THEN { file.meta[k] : k \in DOMAIN file.meta } ELSE {}

----------------------------------------------------------------------------
(* C1 *)

\* C1 (as claimed): every finished upload with an accepted extension and
\* non-blank extracted text, all collaborators working, was answered 200 with
\* a non-empty document_id that no other upload was given, and a GET of that
\* id answers 200 with a record of that document_id.
C1_UploadThenFetch ==
    \A r \in Uploads :
        (Finished(r) /\ HasAcceptedExtension(input[r].filename) /\ Healthy(r))
        => /\ resp[r].status = 200
           /\ resp[r].document_id # ""
           /\ \A q \in Uploads \ {r} :
                 Succeeded(q) => resp[q].document_id # resp[r].document_id
           /\ get_resume(file, resp[r].document_id).status = 200
           /\ get_resume(file, resp[r].document_id).body.document_id
                 = resp[r].document_id

----------------------------------------------------------------------------
(* C2 *)

\* C2 (as claimed): once two uploads have both been answered 200 and no
\* save_metadata is under way, their document_ids differ and a GET of each
\* answers 200 with the matching record.
C2_ConcurrentUploadsKept ==
    \A r \in Uploads : \A q \in Uploads \ {r} :
        (Succeeded(r) /\ Succeeded(q) /\ \A u \in Uploads : ~Saving(u))
        => /\ resp[r].document_id # resp[q].document_id
           /\ get_resume(file, resp[r].document_id).status = 200
           /\ get_resume(file, resp[r].document_id).body = result[r]

----------------------------------------------------------------------------
(* C3 *)

\* C3 (as claimed): the record of an upload answered 200 stays in the store
\* unchanged whatever runs later: a GET of its id never answers 404 and
\* returns the record the upload stored.
C3_RecordsNeverLost ==
    \A r \in Uploads :
        Succeeded(r)
        => /\ get_resume(file, resp[r].document_id).status # 404
           /\ get_resume(file, resp[r].document_id).body = result[r]

----------------------------------------------------------------------------
(* C4 *)

\* C4 (as claimed): in every stored record the fields experience, education,
\* skills and certifications are lists, whatever the inference response was.
C4_ListFieldsAreLists ==
    \A rec \in Stored :
        \A i \in 1..4 : ListFields(rec)[i].t = "list"

----------------------------------------------------------------------------
(* C5 *)

\* the record stored under document_id for a response that is an object with
\* no content at all
EmptyStructuredRecord(document_id, txt) ==
    BuildResult(document_id, DefaultKeys(JDict(<<>>), ExpectedKeys), txt)

\* C5 (as claimed): when extract_structured_json returned {"_raw": raw}, the
\* stored record differs from the record of a structured response whose
\* fields are merely empty.
C5_RawFallbackFlagged ==
    \A r \in Uploads :
        (Succeeded(r) /\ parsed[r] = RawWrapper(RawOf(r)))
        => result[r] # EmptyStructuredRecord(result[r].document_id, text[r])

----------------------------------------------------------------------------
(* C6 *)

\* C6 (as claimed): an upload whose filename has no accepted extension, a
\* filename without a dot included, is answered 400 and none of
\* save_uploaded_file, text extraction, inference and save_metadata ran.
C6_BadExtensionRejected ==
    \A r \in Uploads :
        (pc[r] \notin {"new", "idle"} /\ ~HasAcceptedExtension(input[r].filename))
        => /\ Finished(r) /\ resp[r].status = 400
           /\ calls[r] = {}

----------------------------------------------------------------------------
(* C7 *)

\* upload r got as far as the inference step and the provider side failed
ProviderFailure(r) ==
    /\ "extract_text" \in calls[r] /\ input[r].doc.ok /\ Strip(text[r]) # <<>>
    /\ (provider # "groq" \/ ~apiKey \/ input[r].llm.fails)

\* C7 (as claimed): a provider failure is answered 500 with the generic
\* message and nothing else, and 400 is answered only for an unsupported
\* extension, a failed extraction or a blank text.
C7_ProviderFailuresAre500 ==
    \A r \in Uploads :
        Finished(r)
        => /\ ProviderFailure(r)
                => resp[r].status = 500 /\ resp[r].detail = GenericFailure
           /\ resp[r].status = 400
                => \/ ExtOf(input[r].filename) \notin {ExtPdf, ExtDocx, ExtDoc}
                   \/ ~input[r].doc.ok
                   \/ Strip(text[r]) = <<>>

----------------------------------------------------------------------------
(* C8 *)

\* the upload that built the record
BuilderOf(rec) == CHOOSE r \in Uploads : result[r] = rec

\* C8: every stored record's raw_text has at most 5000 characters, is the
\* whole extracted text when that has at most 5000 characters, and is its
\* first 5000 characters when it is longer.
C8_RawTextCapped ==
    \A rec \in Stored :
        /\ \E r \in Uploads : result[r] = rec
        /\ LET whole == text[BuilderOf(rec)] IN
           /\ Len(rec.raw_text) <= 5000
           /\ Len(whole) <= 5000 => rec.raw_text = whole
           /\ Len(whole) > 5000
                => /\ Len(rec.raw_text) = 5000
                   /\ \A i \in 1..5000 : rec.raw_text[i] = whole[i]

\* a record whose text was longer than the cap is in the store
C8_Witness ==
    \E rec \in Stored :
        /\ \E r \in Uploads : result[r] = rec /\ Len(text[r]) > 5000
        /\ Len(rec.raw_text) = 5000

----------------------------------------------------------------------------
(* C9 *)

\* the response has a "{" with a "}" after it
HasBraceSpan(raw) ==
    \E i \in 1..Len(raw) : \E j \in (i + 1)..Len(raw) :
        raw[i] = LBrace /\ raw[j] = RBrace

\* from the first "{" to the last "}"
BraceSpan(raw) ==
    LET i == CHOOSE a \in 1..Len(raw) :
                raw[a] = LBrace /\ \A b \in 1..(a - 1) : raw[b] # LBrace
        j == CHOOSE a \in 1..Len(raw) :
                raw[a] = RBrace /\ \A b \in (a + 1)..Len(raw) : raw[b] # RBrace
    IN  SubSeq(raw, i, j)

StrictOk(raw) == json_loads(raw).ok /\ ValidResumeData(json_loads(raw).val)

\* C9 (as claimed): strict validation, else the brace span, else the whole
\* response, else {"_raw": raw}, the first success winning.
C9_ThreeStrategiesInOrder ==
    \A r \in Uploads :
        InferenceReturned(r)
        => LET raw == RawOf(r) IN
           parsed[r] =
              IF StrictOk(raw) THEN DumpResumeData(json_loads(raw).val)
              ELSE IF HasBraceSpan(raw) /\ json_loads(BraceSpan(raw)).ok
              THEN json_loads(BraceSpan(raw)).val
              ELSE IF json_loads(raw).ok THEN json_loads(raw).val
              ELSE RawWrapper(raw)

\* C9 (amended): strict validation first; failing that, a response with a
\* brace span yields the parse of the span or, when the span does not parse,
\* {"_raw": raw} without the whole response being tried; only a response
\* with no brace span is parsed whole, and yields {"_raw": raw} when that
\* fails.
C9_SpanOrWhole ==
    \A r \in Uploads :
        InferenceReturned(r)
        => LET raw == RawOf(r) IN
           parsed[r] =
              IF StrictOk(raw) THEN DumpResumeData(json_loads(raw).val)
              ELSE IF HasBraceSpan(raw)
              THEN IF json_loads(BraceSpan(raw)).ok
                   THEN json_loads(BraceSpan(raw)).val
                   ELSE RawWrapper(raw)
              ELSE IF json_loads(raw).ok THEN json_loads(raw).val
              ELSE RawWrapper(raw)

\* a response that is JSON as a whole, whose brace span is not, came back as
\* {"_raw": raw}
C9_Witness ==
    \E r \in Uploads :
        /\ InferenceReturned(r)
        /\ ~StrictOk(RawOf(r))
        /\ HasBraceSpan(RawOf(r)) /\ ~json_loads(BraceSpan(RawOf(r))).ok
        /\ json_loads(RawOf(r)).ok
        /\ parsed[r] = RawWrapper(RawOf(r))

----------------------------------------------------------------------------
(* C10 *)

\* C10 (as claimed): whatever the response, extract_structured_json returns
\* a dict, and the upload is not answered 500.
C10_AlwaysADict ==
    \A r \in Uploads :
        (InferenceReturned(r) /\ Healthy(r))
        => /\ parsed[r].t = "dict"
           /\ Finished(r) => resp[r].status # 500

----------------------------------------------------------------------------
(* C11 *)

\* the values uuid4() has returned so far
IssuedIds == { Uuid(n) : n \in 1..uuidCount }

\* the document_id that the inference response of upload r carries, if any
HasResponseId(r) ==
    /\ parsed[r].t = "dict"
    /\ HasKey(parsed[r], "document_id")
    /\ GetKey(parsed[r], "document_id").t = "str"
ResponseId(r) == GetKey(parsed[r], "document_id").s

\* a dict of the store: every key is the document_id of its record
KeyedByDocumentId(m) == \A k \in DOMAIN m : m[k].document_id = k

\* C11: in the metadata file, and in the dict a save holds between its read
\* and its write, every key k maps to a record whose document_id is k, and
\* that record is the one process_file built for some upload.  The
\* document_id of a built record is a value uuid4() returned to process_file
\* after the inference call: it is none of the tokens of the uploaded files,
\* no other upload has it, it is the id of the 200 answer, and it is not the
\* document_id of the inference response unless uuid4() returned that very
\* value.
C11_IdAssignedByServer ==
    /\ file.ok => KeyedByDocumentId(file.meta)
    /\ file.ok => \A k \in DOMAIN file.meta :
                     \E r \in Uploads : result[r] # NoResult /\ file.meta[k] = result[r]
    /\ \A r \in Uploads : KeyedByDocumentId(meta[r])
    /\ \A r \in Uploads :
          result[r] # NoResult
          => /\ "inference" \in calls[r]
             /\ result[r].document_id \in IssuedIds \ uploadDir
             /\ \A q \in Uploads \ {r} :
                   result[q].document_id # result[r].document_id
             /\ Succeeded(r) => resp[r].document_id = result[r].document_id
             /\ (HasResponseId(r) /\ ResponseId(r) \notin IssuedIds)
                => result[r].document_id # ResponseId(r)
    /\ \A r \in Uploads : Succeeded(r) => result[r] # NoResult

\* two uploads are stored under their own ids, one whose response passed the
\* strict validation and one that went through the fallback, and each
\* response carried a document_id of its own
C11_Witness ==
    \E r, q \in Uploads :
        /\ Succeeded(r) /\ Succeeded(q)
        /\ HasResponseId(r) /\ StrictOk(RawOf(r))
        /\ HasResponseId(q) /\ ~StrictOk(RawOf(q))
        /\ ResponseId(r) # resp[r].document_id
        /\ ResponseId(q) # resp[q].document_id
        /\ file.ok
        /\ {resp[r].document_id, resp[q].document_id} \subseteq DOMAIN file.meta

----------------------------------------------------------------------------
(* C12 *)

\* upload r was answered, and not with 200
Refused(r) == Finished(r) /\ resp[r].status # 200

\* the extraction of upload r returned a text of whitespace alone
BlankText(r) ==
    /\ "extract_text" \in calls[r]
    /\ input[r].doc.ok
    /\ Strip(text[r]) = <<>>

\* C12: the step in which an upload is answered with a status other than 200
\* leaves the metadata file as it was, so that no key is added and no record
\* altered; that upload has not called save_metadata, has built no record and
\* holds no dict of the store, and never does afterwards.  An upload whose
\* document yields whitespace alone is answered 400 without an inference call.
C12_RefusedUploadLeavesStore ==
    [][\A r \in Uploads :
          /\ (~Finished(r) /\ Refused(r)')
             => /\ file' = file
                /\ "save_metadata" \notin calls'[r]
                /\ result'[r] = NoResult
                /\ meta'[r] = EmptyMeta
                /\ BlankText(r)'
                   => resp'[r].status = 400 /\ "inference" \notin calls'[r]
          /\ Refused(r)
             => /\ Refused(r)'
                /\ calls'[r] = calls[r] /\ result'[r] = result[r]
                /\ meta'[r] = meta[r]]_vars

\* an upload of a whitespace-only document was answered 400 without an
\* inference call, and the record another upload stored is in the file
C12_Witness ==
    \E r, q \in Uploads :
        /\ Refused(r) /\ BlankText(r)
        /\ resp[r].status = 400
        /\ calls[r] = {"save_uploaded_file", "extract_text"}
        /\ Succeeded(q)
        /\ file.ok
        /\ resp[q].document_id \in DOMAIN file.meta
        /\ file.meta[resp[q].document_id] = result[q]

====
